---------------------------- MODULE Spec2Model ----------------------------
(***************************************************************************)
(* A model of the line calculator of 7_calculator/calculator/src/main.rs:  *)
(* the pest grammar (CalculatorParser), the Pratt parser (PRATT_PARSER,    *)
(* parse_expr), the tree evaluator (Expr::evaluate) and the line loop of   *)
(* main.                                                                   *)
(*                                                                         *)
(* A line of text is a sequence of one-character strings.  A position in   *)
(* a line is the index of the next character to read; Len(s) + 1 is the    *)
(* end of input.                                                           *)
(***************************************************************************)
EXTENDS Integers, Sequences, FiniteSets, TLC

VARIABLES
    stdin,            \* the lines of the input stream, in order
    pos,              \* the number of lines main has taken from the stream
    stdout,           \* the lines written to standard output
    stderr,           \* the lines written to standard error
    status,           \* "running", "exited" (Ok(())), "io_error" (Err), "panicked"
    overflow_checks,  \* the build configuration: TRUE in debug, FALSE in release
    expr,             \* the local `expr` of the last loop iteration, or None
    resp              \* history: what each line taken from the stream led to

vars == <<stdin, pos, stdout, stderr, status, overflow_checks, expr, resp>>

(***************************************************************************)
(* Bounds of the model.                                                    *)
(***************************************************************************)
MaxLen == 4        \* longest line drawn from all strings over Alphabet
MaxLines == 2      \* longest input stream drawn from SampleLines
MaxOperand == 7    \* operands of the division check range over -7..7

(***************************************************************************)
(* i32                                                                     *)
(***************************************************************************)
I32Max == 2147483647
I32Min == -I32Max - 1

(***************************************************************************)
(* The grammar of CalculatorParser.  Every rule takes the line and a       *)
(* position and returns whether it matched, the position after the match   *)
(* and the pairs it produced.  A pair has the rule that made it, the text  *)
(* it spans and its inner pairs.  Silent rules (atom, bin_op, equation)    *)
(* make no pair of their own.                                              *)
(***************************************************************************)
Fail == [ok |-> FALSE, pos |-> 0, pairs |-> <<>>]
Matched(p, ps) == [ok |-> TRUE, pos |-> p, pairs |-> ps]
Pair(r, str, inner) == [rule |-> r, str |-> str, inner |-> inner]

\* Variant: a tab is skipped too.
WHITESPACE_tab(c) == c \in {" ", "\t"}

\* WHITESPACE = _{ " " }
WHITESPACE(c) == c = " "

ASCII_DIGIT(c) == c \in {"0", "1", "2", "3", "4", "5", "6", "7", "8", "9"}

\* The implicit WHITESPACE* pest puts at every ~ and between the repetitions
\* of a non-atomic rule.
RECURSIVE skip(_, _)
skip(s, i) == IF i <= Len(s) /\ WHITESPACE(s[i]) THEN skip(s, i + 1) ELSE i

RECURSIVE digits(_, _)
digits(s, i) == IF i <= Len(s) /\ ASCII_DIGIT(s[i]) THEN digits(s, i + 1) ELSE i

(***************************************************************************)
(* What pest does with the operators of a grammar expression.  m, m1, m2   *)
(* are results of matching; R is a rule to match next.                     *)
(***************************************************************************)
\* e?  tried at position i
optional(m, i) == IF m.ok THEN m ELSE Matched(i, <<>>)
\* e1 | e2
choice(m1, m2) == IF m1.ok THEN m1 ELSE m2
\* the pairs of two matches that follow each other
join(m1, m2) == IF m2.ok THEN Matched(m2.pos, m1.pairs \o m2.pairs) ELSE Fail
\* m1 ~ e2, where m2 is the match of e2 tried after m1 and the whitespace
\* that follows it: e2 is tried only when m1 matched
followed_by(m1, m2) == IF m1.ok THEN join(m1, m2) ELSE Fail
\* where the next element of a sequence starts after the match m
after(s, m) == skip(s, m.pos)

\* a string literal c; as rule r it makes a pair, as "" it makes none
literal(s, i, c, r) ==
    IF i <= Len(s) /\ s[i] = c
    THEN Matched(i + 1, IF r = "" THEN <<>> ELSE <<Pair(r, <<c>>, <<>>)>>)
    ELSE Fail

\* integer = @{ ASCII_DIGIT+ }   (atomic: nothing is skipped inside)
integer_to(s, i, j) ==
    IF j > i THEN Matched(j, <<Pair("integer", SubSeq(s, i, j - 1), <<>>)>>) ELSE Fail
integer(s, i) == integer_to(s, i, digits(s, i))

add(s, i) == literal(s, i, "+", "add")
subtract(s, i) == literal(s, i, "-", "subtract")
multiply(s, i) == literal(s, i, "*", "multiply")
divide(s, i) == literal(s, i, "/", "divide")
modulo(s, i) == literal(s, i, "%", "modulo")
unary_minus(s, i) == literal(s, i, "-", "unary_minus")

\* bin_op = _{ add | subtract | multiply | divide | modulo }
bin_op(s, i) ==
    choice(add(s, i), choice(subtract(s, i), choice(multiply(s, i),
           choice(divide(s, i), modulo(s, i)))))

open_paren(s, i) == literal(s, i, "(", "")
close_paren(s, i) == literal(s, i, ")", "")

RECURSIVE atom(_, _), primary(_, _), grammar_expr(_, _), bin_op_atom(_, _),
          repetitions(_, _), then_repetitions(_, _)

\* "(" ~ expr ~ ")", from the match of "("
parenthesised_expr(s, open) == followed_by(open, grammar_expr(s, after(s, open)))
closed(s, m) == followed_by(m, close_paren(s, after(s, m)))
primary(s, i) == choice(integer(s, i), closed(s, parenthesised_expr(s, open_paren(s, i))))

\* atom = _{ unary_minus? ~ (integer | "(" ~ expr ~ ")") }
atom_after(s, minus) == followed_by(minus, primary(s, after(s, minus)))
atom(s, i) == atom_after(s, optional(unary_minus(s, i), i))

\* bin_op ~ atom
operand_of(s, op) == followed_by(op, atom(s, after(s, op)))
bin_op_atom(s, i) == operand_of(s, bin_op(s, i))

\* (bin_op ~ atom)* from position i, reached after the whitespace before it was
\* skipped: a first repetition, then repetitions that each skip before they
\* match and give back what they skipped when they do not.
repetitions(s, i) == optional(then_repetitions(s, bin_op_atom(s, i)), i)
then_repetitions(s, m) ==
    IF m.ok
    THEN join(m, optional(then_repetitions(s, bin_op_atom(s, after(s, m))), m.pos))
    ELSE Fail

\* expr = { atom ~ (bin_op ~ atom)* }: one pair, the matched pairs inside it
expr_pair(s, i, m) ==
    IF m.ok THEN Matched(m.pos, <<Pair("expr", SubSeq(s, i, m.pos - 1), m.pairs)>>)
    ELSE Fail
expr_after(s, first) == followed_by(first, repetitions(s, after(s, first)))
grammar_expr(s, i) == expr_pair(s, i, expr_after(s, atom(s, i)))

\* equation = _{ SOI ~ expr ~ EOI }
SOI == Matched(1, <<>>)
EOI(s, i) == IF i = Len(s) + 1 THEN Matched(i, <<>>) ELSE Fail
at_end(s, m) == followed_by(m, EOI(s, after(s, m)))
equation(s) == at_end(s, followed_by(SOI, grammar_expr(s, after(s, SOI))))

\* CalculatorParser::parse(Rule::equation, line): Ok(pairs) or Err(e).
CalculatorParser_parse(s) == equation(s)

(***************************************************************************)
(* i32 arithmetic.  Every operation returns [panic, value]: panic is the   *)
(* message of the panic it raises, "" when it returns value.  With         *)
(* overflow checks (oc) an overflowing +, -, * or negation panics; without *)
(* them it wraps modulo 2^32.  Division and remainder panic on a zero      *)
(* divisor and on i32::MIN / -1 in every build.  No intermediate value     *)
(* leaves the i32 range.                                                   *)
(***************************************************************************)
Returns(v) == [panic |-> "", value |-> v]
Panics(msg) == [panic |-> msg, value |-> 0]

add_overflows(a, b) == (b > 0 /\ a > I32Max - b) \/ (b < 0 /\ a < I32Min - b)
wrapping_add(a, b) ==
    IF b > 0 /\ a > I32Max - b THEN (a + I32Min) + (b + I32Min)
    ELSE IF b < 0 /\ a < I32Min - b THEN (a - I32Min) + (b - I32Min)
    ELSE a + b

sub_overflows(a, b) == (b < 0 /\ a > I32Max + b) \/ (b > 0 /\ a < I32Min + b)
wrapping_sub(a, b) ==
    IF b < 0 /\ a > I32Max + b THEN (a + I32Min) - (b - I32Min)
    ELSE IF b > 0 /\ a < I32Min + b THEN (a - I32Min) - (b + I32Min)
    ELSE a - b

wrapping_neg(a) == IF a = I32Min THEN I32Min ELSE -a

\* The low 32 bits of a * b, by shift and add on the bits of b.
RECURSIVE wrapping_mul(_, _)
wrapping_mul(a, b) ==
    IF a = 0 \/ b = 0 THEN 0
    ELSE IF b = -1 THEN wrapping_neg(a)
    ELSE LET h == wrapping_mul(wrapping_add(a, a), b \div 2)
         IN  IF b % 2 = 1 THEN wrapping_add(a, h) ELSE h

\* Variant: the quotient rounded down when the divisor is positive.
flooring_div(a, b) ==
    IF b > 0 THEN a \div b
    ELSE IF b = I32Min THEN IF a = I32Min THEN 1 ELSE 0
    ELSE IF a > 0 THEN -(a \div (-b)) ELSE -((a + (-b) - 1) \div (-b))

\* a / b for b # 0 and (a, b) # (i32::MIN, -1): the quotient rounded toward zero.
truncating_div(a, b) ==
    IF b > 0
    THEN IF a >= 0 THEN a \div b ELSE (a + b - 1) \div b
    ELSE IF b = I32Min
    THEN IF a = I32Min THEN 1 ELSE 0
    ELSE IF a > 0 THEN -(a \div (-b)) ELSE -((a + (-b) - 1) \div (-b))

\* a % b for b # 0 and (a, b) # (i32::MIN, -1): what the division leaves.
truncating_rem(a, b) == a - truncating_div(a, b) * b

mul_overflows(a, b) ==
    /\ a # 0
    /\ b # 0
    /\ \/ (a = -1 /\ b = I32Min)
       \/ (a = I32Min /\ b = -1)
       \/ (~(a = -1 /\ b = I32Min) /\ ~(a = I32Min /\ b = -1)
           /\ truncating_div(wrapping_mul(a, b), a) # b)

Neg(a, oc) ==
    IF a = I32Min /\ oc THEN Panics("attempt to negate with overflow")
    ELSE Returns(wrapping_neg(a))
Add(a, b, oc) ==
    IF add_overflows(a, b) /\ oc THEN Panics("attempt to add with overflow")
    ELSE Returns(wrapping_add(a, b))
Subtract(a, b, oc) ==
    IF sub_overflows(a, b) /\ oc THEN Panics("attempt to subtract with overflow")
    ELSE Returns(wrapping_sub(a, b))
Multiply(a, b, oc) ==
    IF mul_overflows(a, b) /\ oc THEN Panics("attempt to multiply with overflow")
    ELSE Returns(wrapping_mul(a, b))
Divide(a, b) ==
    IF b = 0 THEN Panics("attempt to divide by zero")
    ELSE IF a = I32Min /\ b = -1 THEN Panics("attempt to divide with overflow")
    ELSE Returns(truncating_div(a, b))
Modulo(a, b) ==
    IF b = 0 THEN Panics("attempt to calculate the remainder with a divisor of zero")
    ELSE IF a = I32Min /\ b = -1
    THEN Panics("attempt to calculate the remainder with overflow")
    ELSE Returns(truncating_rem(a, b))

(***************************************************************************)
(* str::parse::<i32> on a string of ASCII digits: the digits are folded    *)
(* from the left with checked multiply and checked add, so the result is   *)
(* Err(PosOverflow) as soon as the value passes i32::MAX.                  *)
(***************************************************************************)
DigitValue(c) ==
    CASE c = "0" -> 0 [] c = "1" -> 1 [] c = "2" -> 2 [] c = "3" -> 3 [] c = "4" -> 4
      [] c = "5" -> 5 [] c = "6" -> 6 [] c = "7" -> 7 [] c = "8" -> 8 [] c = "9" -> 9

RECURSIVE parse_digits(_, _, _)
parse_digits(str, k, acc) ==
    IF k > Len(str) THEN [ok |-> TRUE, value |-> acc]
    ELSE LET d == DigitValue(str[k])
         IN  IF acc > I32Max \div 10 \/ acc * 10 > I32Max - d
             THEN [ok |-> FALSE, value |-> 0]
             ELSE parse_digits(str, k + 1, acc * 10 + d)

parse_i32(str) == parse_digits(str, 1, 0)

(***************************************************************************)
(* Expr and OpType.  Panic(msg) stands for a panic raised while the tree   *)
(* is being built: no tree exists then.                                    *)
(***************************************************************************)
Integer(v) == [tag |-> "Integer", value |-> v]
UnaryMinus(e) == [tag |-> "UnaryMinus", expr |-> e]
BinOp(lhs, op, rhs) == [tag |-> "BinOp", lhs |-> lhs, op |-> op, rhs |-> rhs]
OpType == {"Add", "Subtract", "Multiply", "Divide", "Modulo"}
Panic(msg) == [tag |-> "Panic", msg |-> msg]
IsPanic(e) == e.tag = "Panic"

(***************************************************************************)
(* PRATT_PARSER: each .op() call gives its operators the next precedence,  *)
(* ten above the one before (pest's PREC_STEP), starting at ten.           *)
(***************************************************************************)
\* Variants: one precedence for every binary operator; the prefix operator
\* declared first, below the binary operators.
PRATT_PARSER_one_level ==
    [add         |-> [affix |-> "infix", assoc |-> "Left", prec |-> 10],
     subtract    |-> [affix |-> "infix", assoc |-> "Left", prec |-> 10],
     multiply    |-> [affix |-> "infix", assoc |-> "Left", prec |-> 10],
     divide      |-> [affix |-> "infix", assoc |-> "Left", prec |-> 10],
     modulo      |-> [affix |-> "infix", assoc |-> "Left", prec |-> 10],
     unary_minus |-> [affix |-> "prefix", assoc |-> "None", prec |-> 20]]
PRATT_PARSER_prefix_first ==
    [unary_minus |-> [affix |-> "prefix", assoc |-> "None", prec |-> 10],
     add         |-> [affix |-> "infix", assoc |-> "Left", prec |-> 20],
     subtract    |-> [affix |-> "infix", assoc |-> "Left", prec |-> 20],
     multiply    |-> [affix |-> "infix", assoc |-> "Left", prec |-> 30],
     divide      |-> [affix |-> "infix", assoc |-> "Left", prec |-> 30],
     modulo      |-> [affix |-> "infix", assoc |-> "Left", prec |-> 30]]

PRATT_PARSER ==
    [add         |-> [affix |-> "infix", assoc |-> "Left", prec |-> 10],
     subtract    |-> [affix |-> "infix", assoc |-> "Left", prec |-> 10],
     multiply    |-> [affix |-> "infix", assoc |-> "Left", prec |-> 20],
     divide      |-> [affix |-> "infix", assoc |-> "Left", prec |-> 20],
     modulo      |-> [affix |-> "infix", assoc |-> "Left", prec |-> 20],
     unary_minus |-> [affix |-> "prefix", assoc |-> "None", prec |-> 30]]

\* The closure given to map_infix.
map_infix(lhs, op, rhs) ==
    CASE op.rule = "add" -> BinOp(lhs, "Add", rhs)
      [] op.rule = "subtract" -> BinOp(lhs, "Subtract", rhs)
      [] op.rule = "multiply" -> BinOp(lhs, "Multiply", rhs)
      [] op.rule = "divide" -> BinOp(lhs, "Divide", rhs)
      [] op.rule = "modulo" -> BinOp(lhs, "Modulo", rhs)
      [] OTHER -> Panic("Expr::parse expected infix operation")

\* The closure given to map_prefix.
map_prefix(op, rhs) ==
    IF op.rule = "unary_minus" THEN UnaryMinus(rhs) ELSE Panic("unreachable")

(***************************************************************************)
(* PrattParserMap::parse over the pairs of one expr, from pair i on.  expr *)
(* (pratt_expr), nud, led and lbp are pest's; each returns the value built *)
(* and the index of the first pair it did not take.  A panic in a closure  *)
(* unwinds through all of them.                                            *)
(***************************************************************************)
RECURSIVE parse_expr(_), map_primary(_), pratt_expr(_, _, _), pratt_while(_, _, _),
          nud(_, _), led(_, _, _)

Built(v, p) == [val |-> v, pos |-> p]

lbp(pairs, i) ==
    IF i > Len(pairs) THEN 0
    ELSE IF pairs[i].rule \in DOMAIN PRATT_PARSER THEN PRATT_PARSER[pairs[i].rule].prec
    ELSE -1   \* panic: "Expected operator"; the grammar never produces it

\* Rule::integer => Expr::Integer(primary.as_str().parse::<i32>().unwrap())
unwrap_Integer(n) ==
    IF n.ok THEN Integer(n.value)
    ELSE Panic("called Result::unwrap() on an Err value: ParseIntError PosOverflow")

\* The closure given to map_primary.
map_primary(pair) ==
    CASE pair.rule = "integer" -> unwrap_Integer(parse_i32(pair.str))
      [] pair.rule = "expr" -> parse_expr(pair.inner)
      [] OTHER -> Panic("Expr::parse expected atom")

\* prefix(pair, rhs) and infix(lhs, pair, rhs), unless building rhs panicked
apply_prefix(pair, rhs) ==
    IF IsPanic(rhs.val) THEN rhs ELSE Built(map_prefix(pair, rhs.val), rhs.pos)
apply_infix(lhs, pair, rhs) ==
    IF IsPanic(rhs.val) THEN rhs ELSE Built(map_infix(lhs, pair, rhs.val), rhs.pos)

Prec(rule) == PRATT_PARSER[rule].prec
Affix(rule) == IF rule \in DOMAIN PRATT_PARSER THEN PRATT_PARSER[rule].affix ELSE "none"
Assoc(rule) == PRATT_PARSER[rule].assoc

nud(pairs, i) ==
    IF i > Len(pairs) THEN Built(Panic("Pratt parser expects non-empty Pairs"), i)
    ELSE CASE Affix(pairs[i].rule) = "prefix" ->
                apply_prefix(pairs[i], pratt_expr(pairs, i + 1, Prec(pairs[i].rule) - 1))
           [] Affix(pairs[i].rule) = "none" -> Built(map_primary(pairs[i]), i + 1)
           [] OTHER -> Built(Panic("Expected prefix or primary expression"), i)

led(pairs, i, lhs) ==
    IF Affix(pairs[i].rule) = "infix"
    THEN apply_infix(lhs, pairs[i],
                     pratt_expr(pairs, i + 1,
                                IF Assoc(pairs[i].rule) = "Left" THEN Prec(pairs[i].rule)
                                ELSE Prec(pairs[i].rule) - 1))
    ELSE Built(Panic("Expected postfix or infix expression"), i)

\* while rbp < self.lbp(pairs) { lhs = self.led(pairs, lhs); }
pratt_while(pairs, lhs, rbp) ==
    IF IsPanic(lhs.val) THEN lhs
    ELSE IF rbp < lbp(pairs, lhs.pos)
    THEN pratt_while(pairs, led(pairs, lhs.pos, lhs.val), rbp)
    ELSE lhs

\* fn expr(pairs, rbp): let mut lhs = self.nud(pairs); while ...; lhs
pratt_expr(pairs, i, rbp) == pratt_while(pairs, nud(pairs, i), rbp)

\* parse_expr(pairs): the Expr built from the pairs of one expr.
parse_expr(pairs) == pratt_expr(pairs, 1, 0).val

(***************************************************************************)
(* Expr::evaluate, in a build with overflow checks oc.                     *)
(***************************************************************************)
RECURSIVE evaluate(_, _)

\* -x, unless evaluating x panicked
negate(v, oc) == IF v.panic # "" THEN v ELSE Neg(v.value, oc)

\* left <op> right, unless evaluating left or right panicked
apply_op(left, op, right, oc) ==
    IF left.panic # "" THEN left
    ELSE IF right.panic # "" THEN right
    ELSE CASE op = "Add" -> Add(left.value, right.value, oc)
           [] op = "Subtract" -> Subtract(left.value, right.value, oc)
           [] op = "Multiply" -> Multiply(left.value, right.value, oc)
           [] op = "Divide" -> Divide(left.value, right.value)
           [] op = "Modulo" -> Modulo(left.value, right.value)

evaluate(self, oc) ==
    CASE self.tag = "Integer" -> Returns(self.value)
      [] self.tag = "UnaryMinus" -> negate(evaluate(self.expr, oc), oc)
      [] self.tag = "BinOp" ->
            apply_op(evaluate(self.lhs, oc), self.op, evaluate(self.rhs, oc), oc)

(***************************************************************************)
(* Display of an i32: a "-" for a negative value, then the decimal digits. *)
(***************************************************************************)
DigitChar(d) ==
    CASE d = 0 -> "0" [] d = 1 -> "1" [] d = 2 -> "2" [] d = 3 -> "3" [] d = 4 -> "4"
      [] d = 5 -> "5" [] d = 6 -> "6" [] d = 7 -> "7" [] d = 8 -> "8" [] d = 9 -> "9"

\* The digits of |v| for v <= 0, most significant first (<<>> for 0).
RECURSIVE magnitude_digits(_)
magnitude_digits(v) ==
    IF v = 0 THEN <<>>
    ELSE LET r == (10 - (v % 10)) % 10
         IN  Append(magnitude_digits((v + r) \div 10), DigitChar(r))

fmt_i32(v) ==
    IF v = 0 THEN <<"0">>
    ELSE IF v < 0 THEN <<"-">> \o magnitude_digits(v)
    ELSE magnitude_digits(-v)

\* println!("Result: {}", v) and eprintln!("Parse failed: {:?}", e): the line
\* written.  The Debug text of a pest error is a function of the rejected line
\* alone and stands here as that line.
println_Result(v) == <<"Result: ">> \o fmt_i32(v)
eprintln_ParseFailed(line) == <<"Parse failed: ">> \o line
\* What the panic hook writes to standard error before the process dies.
panic_message(msg) == <<"thread main panicked: ", msg>>

(***************************************************************************)
(* The lines the input stream is drawn from.  SampleLines are the lines    *)
(* the specification names and lines that reach each error of the          *)
(* evaluator; Strings(n) are all lines of at most n characters over        *)
(* Alphabet.                                                               *)
(***************************************************************************)
L_10m3m2 == <<"1", "0", "-", "3", "-", "2">>
L_2p3t4 == <<"2", "+", "3", "*", "4">>
L_par2p3t4 == <<"(", "2", "+", "3", ")", "*", "4">>
L_m2t3 == <<"-", "2", "*", "3">>
L_m2p3 == <<"-", "2", "+", "3">>
L_2tm3 == <<"2", "*", "-", "3">>
L_mpar2p3 == <<"-", "(", "2", "+", "3", ")">>
L_spaces == <<" ", " ", "1", " ", "+", " ", "2", " ">>
L_tab == <<"1", "\t", "+", "2">>
L_5d0 == <<"5", "/", "0">>
L_5r0 == <<"5", "%", "0">>
L_nested_d0 == <<"1", "+", "4", "/", "(", "2", "-", "2", ")">>
L_1p == <<"1", "+">>
L_unclosed == <<"(", "1", "+", "2">>
L_empty == <<>>
L_1pt2 == <<"1", "+", "*", "2">>
L_garbage == <<"1", "+", "2", "x">>
L_mm1 == <<"-", "-", "1">>
L_1sp2 == <<"1", " ", "2">>
L_2e31 == <<"2", "1", "4", "7", "4", "8", "3", "6", "4", "8">>
L_big == <<"9", "9", "9", "9", "9", "9", "9", "9", "9", "9", "9">>
L_max == <<"2", "1", "4", "7", "4", "8", "3", "6", "4", "7">>
L_maxp1 == <<"2", "1", "4", "7", "4", "8", "3", "6", "4", "7", "+", "1">>
L_negmin == <<"-", "(", "-", "2", "1", "4", "7", "4", "8", "3", "6", "4", "7", "-", "1", ")">>
L_mul64k == <<"6", "5", "5", "3", "6", "*", "6", "5", "5", "3", "6">>
L_subunder == <<"-", "2", "1", "4", "7", "4", "8", "3", "6", "4", "7", "-", "2">>
L_mind1 == <<"(", "-", "2", "1", "4", "7", "4", "8", "3", "6", "4", "7", "-", "1", ")", "/", "-", "1">>
L_m7d2 == <<"-", "7", "/", "2">>
L_7dm2 == <<"7", "/", "-", "2">>
L_m7r2 == <<"-", "7", "%", "2">>

SampleLines ==
    {L_10m3m2, L_2p3t4, L_par2p3t4, L_m2t3, L_m2p3, L_2tm3,
     L_mpar2p3, L_spaces, L_tab, L_5d0, L_5r0, L_nested_d0,
     L_1p, L_unclosed, L_empty, L_1pt2, L_garbage, L_mm1,
     L_1sp2, L_2e31, L_big, L_max, L_maxp1, L_negmin,
     L_mul64k, L_subunder, L_mind1, L_m7d2, L_7dm2, L_m7r2}

Alphabet == {"1", "+", "-", "*", "/", "%", "(", ")", " ", "\t", "x"}
Strings(n) == UNION {[1..k -> Alphabet] : k \in 0..n}

\* Every line of three atoms 1, 2, 3 and two binary operators, without and with
\* a unary minus on each atom.
BinaryOperators == {"+", "-", "*", "/", "%"}
OperatorLines ==
    {<<"1", o1, "2", o2, "3">> : <<o1, o2>> \in BinaryOperators \X BinaryOperators}
    \cup {<<"-", "1", o1, "-", "2", o2, "-", "3">> :
              <<o1, o2>> \in BinaryOperators \X BinaryOperators}

\* The text of an operand whose value is n: i32::MIN has no literal.
OperandText(n) ==
    IF n = I32Min
    THEN <<"(", "-", "2", "1", "4", "7", "4", "8", "3", "6", "4", "7", "-", "1", ")">>
    ELSE fmt_i32(n)
Operands == (-MaxOperand..MaxOperand) \cup {I32Min, I32Min + 1, I32Max}

(***************************************************************************)
(* main.                                                                   *)
(***************************************************************************)
None == [tag |-> "None"]

\* The body of the loop for one line: what is written, to which stream, and
\* whether the process panics.  The arguments of println! are evaluated before
\* anything is written.
Response(kind, e, text) == [kind |-> kind, expr |-> e, text |-> text]

print_value(e, v) ==
    IF v.panic # "" THEN Response("panic", e, panic_message(v.panic))
    ELSE Response("Result", e, println_Result(v.value))

evaluate_and_print(e, oc) ==
    IF IsPanic(e) THEN Response("panic", None, panic_message(e.msg))
    ELSE print_value(e, evaluate(e, oc))

match_parsed(line, parsed, oc) ==
    IF parsed.ok THEN evaluate_and_print(parse_expr(parsed.pairs[1].inner), oc)
    ELSE Response("ParseFailed", None, eprintln_ParseFailed(line))

process_line(line, oc) == match_parsed(line, CalculatorParser_parse(line), oc)

TypeOK ==
    /\ pos \in 0..Len(stdin)
    /\ status \in {"running", "exited", "io_error", "panicked"}
    /\ overflow_checks \in BOOLEAN
    /\ Len(resp) = pos

InitWith(streams) ==
    /\ stdin \in streams
    /\ pos = 0
    /\ stdout = <<>>
    /\ stderr = <<>>
    /\ status = "running"
    /\ overflow_checks \in BOOLEAN
    /\ expr = None
    /\ resp = <<>>

\* Streams of at most MaxLines sample lines.
Init == InitWith(UNION {[1..k -> SampleLines] : k \in 0..MaxLines})

\* Streams of one line: any string of at most MaxLen characters, an operator
\* line or a sample.
InitLine == InitWith({<<l>> : l \in Strings(MaxLen) \cup OperatorLines \cup SampleLines})

\* Streams of two lines: a / b, then a % b.
DivRemStream(a, b) ==
    <<OperandText(a) \o <<"/">> \o OperandText(b),
      OperandText(a) \o <<"%">> \o OperandText(b)>>
InitDivRem == InitWith({DivRemStream(ab[1], ab[2]) : ab \in Operands \X Operands})

\* The effect of one turn of the loop whose response is r.
Respond(r) ==
    /\ stdout' = IF r.kind = "Result" THEN Append(stdout, r.text) ELSE stdout
    /\ stderr' = IF r.kind = "Result" THEN stderr ELSE Append(stderr, r.text)
    /\ status' = IF r.kind = "panic" THEN "panicked" ELSE "running"
    /\ expr' = r.expr
    /\ resp' = Append(resp, [kind |-> r.kind, text |-> r.text])

\* lines() yields Some(Ok(line)): one turn of the loop.
ProcessLine ==
    /\ status = "running"
    /\ pos < Len(stdin)
    /\ Respond(process_line(stdin[pos + 1], overflow_checks))
    /\ pos' = pos + 1
    /\ UNCHANGED <<stdin, overflow_checks>>

\* lines() yields Some(Err(e)): `line?` returns the error from main.
ReadFailure ==
    /\ status = "running"
    /\ status' = "io_error"
    /\ stderr' = Append(stderr, <<"Error: ">>)
    /\ UNCHANGED <<stdin, pos, stdout, overflow_checks, expr, resp>>

\* lines() yields None: main returns Ok(()).
Exit ==
    /\ status = "running"
    /\ pos = Len(stdin)
    /\ status' = "exited"
    /\ UNCHANGED <<stdin, pos, stdout, stderr, overflow_checks, expr, resp>>

Next == ProcessLine \/ ReadFailure \/ Exit

Spec == Init /\ [][Next]_vars
SpecLine == InitLine /\ [][Next]_vars
SpecDivRem == InitDivRem /\ [][Next]_vars

(***************************************************************************)
(* What the properties below say about a line taken from the stream.       *)
(***************************************************************************)
Last(xs) == xs[Len(xs)]
Chars(line) == {line[k] : k \in 1..Len(line)}

\* The line has been rejected by the grammar matcher and reported as such.
Reported(i) == resp[i].kind = "ParseFailed"
\* The line has a Result line.
Answered(i) == resp[i].kind = "Result"

\* The panic, if any, that ends the processing of the line in a build with
\* overflow checks oc ("" when there is none).
PanicOf(line, oc) ==
    IF process_line(line, oc).kind = "panic" THEN process_line(line, oc).text[2] ELSE ""

DivisionByZeroPanics ==
    {"attempt to divide by zero", "attempt to calculate the remainder with a divisor of zero"}
OverflowPanics ==
    {"attempt to add with overflow", "attempt to subtract with overflow",
     "attempt to multiply with overflow", "attempt to negate with overflow"}
LiteralPanics == {"called Result::unwrap() on an Err value: ParseIntError PosOverflow"}

(***************************************************************************)
(* C1.  A per-line error never aborts the process: no line makes it panic, *)
(* and when main returns Ok(()) every line of the stream has been taken.   *)
(* Only a read failure ends the process early.                             *)
(***************************************************************************)
C1_PerLineErrorsNeverAbort ==
    /\ status # "panicked"
    /\ status = "exited" => pos = Len(stdin)

(***************************************************************************)
(* C2.  A line whose evaluation divides or takes a remainder by zero is    *)
(* answered with a reported error: an error line for that line, no Result  *)
(* line, and the process goes on.                                          *)
(***************************************************************************)
C2_DivisionByZeroReported ==
    \A i \in 1..pos :
        PanicOf(stdin[i], overflow_checks) \in DivisionByZeroPanics
            => Reported(i) /\ status # "panicked"

(***************************************************************************)
(* C3.  A line whose evaluation leaves the i32 range in a +, -, * or a     *)
(* negation is answered with a reported error in every build: never with a *)
(* wrapped Result, never with a panic.                                     *)
(***************************************************************************)
C3_OverflowReported ==
    \A i \in 1..pos :
        PanicOf(stdin[i], TRUE) \in OverflowPanics => Reported(i) /\ status # "panicked"

(***************************************************************************)
(* C4.  A line the grammar accepts with an integer literal above i32::MAX  *)
(* is answered with a reported error for that line only: no Result line,   *)
(* and the process goes on.                                                *)
(***************************************************************************)
C4_InvalidLiteralReported ==
    \A i \in 1..pos :
        PanicOf(stdin[i], overflow_checks) \in LiteralPanics
            => Reported(i) /\ status # "panicked"

(***************************************************************************)
(* C5.  The sentences of equation, read off the grammar as a scanner with  *)
(* one counter: the scanner is before an atom, before a primary (after a   *)
(* unary minus), inside an integer or after a primary; depth counts the    *)
(* parentheses still open.  Only " " is skipped, and not inside an integer.*)
(***************************************************************************)
Scan(state, depth) == [state |-> state, depth |-> depth]

RefStep(st, c) ==
    CASE c = " " -> IF st.state = "int" THEN Scan("after", st.depth) ELSE st
      [] ASCII_DIGIT(c) ->
            IF st.state = "after" THEN Scan("reject", 0) ELSE Scan("int", st.depth)
      [] c = "(" ->
            IF st.state \in {"atom", "primary"} THEN Scan("atom", st.depth + 1)
            ELSE Scan("reject", 0)
      [] c = ")" ->
            IF st.state \in {"int", "after"} /\ st.depth > 0 THEN Scan("after", st.depth - 1)
            ELSE Scan("reject", 0)
      [] c = "-" ->
            IF st.state = "atom" THEN Scan("primary", st.depth)
            ELSE IF st.state \in {"int", "after"} THEN Scan("atom", st.depth)
            ELSE Scan("reject", 0)
      [] c \in {"+", "*", "/", "%"} ->
            IF st.state \in {"int", "after"} THEN Scan("atom", st.depth)
            ELSE Scan("reject", 0)
      [] OTHER -> Scan("reject", 0)

RECURSIVE RefScan(_, _, _)
RefScan(s, i, st) ==
    IF st.state = "reject" THEN FALSE
    ELSE IF i > Len(s) THEN st.state \in {"int", "after"} /\ st.depth = 0
    ELSE RefScan(s, i + 1, RefStep(st, s[i]))

IsSentence(s) == RefScan(s, 1, Scan("atom", 0))

\* C5: a line taken from the stream is rejected by the grammar matcher (and
\* reported as a parse failure) if and only if it is not a sentence of equation.
C5_AcceptsExactlyTheSentences ==
    \A i \in 1..pos : Reported(i) <=> ~IsSentence(stdin[i])

\* A sentence with a space and parentheses has been accepted and answered.
C5_Witness ==
    /\ pos = 1
    /\ {" ", "(", ")"} \subseteq Chars(stdin[1])
    /\ Answered(1)

(***************************************************************************)
(* C6.  The reference: a recursive-descent reader with one level for + and *)
(* -, one for *, / and %, each folding to the left, and parentheses as one *)
(* operand.  It reads a sentence whose literals fit an i32.                *)
(***************************************************************************)
RECURSIVE RefSpaces(_, _)
RefSpaces(s, i) == IF i <= Len(s) /\ s[i] = " " THEN RefSpaces(s, i + 1) ELSE i

\* The first character at or after i that is no space ("" at the end).
RefChar(s, i) == IF RefSpaces(s, i) <= Len(s) THEN s[RefSpaces(s, i)] ELSE ""

RECURSIVE RefNumber(_, _, _)
RefNumber(s, i, j) ==
    IF j < i THEN 0 ELSE RefNumber(s, i, j - 1) * 10 + DigitValue(s[j])

RefOp(c) ==
    CASE c = "+" -> "Add" [] c = "-" -> "Subtract" [] c = "*" -> "Multiply"
      [] c = "/" -> "Divide" [] c = "%" -> "Modulo"

RefFold(left, c, right) == Built(BinOp(left.val, RefOp(c), right.val), right.pos)
RefNegated(operand) == Built(UnaryMinus(operand.val), operand.pos)
RefClosed(s, inner) == Built(inner.val, RefSpaces(s, inner.pos) + 1)
RefLiteral(s, i, j) == Built(Integer(RefNumber(s, i, j - 1)), j)

RECURSIVE RefSum(_, _), RefSumMore(_, _), RefTerm(_, _), RefTermMore(_, _),
          RefUnary(_, _), RefPrimary(_, _)

RefPrimary(s, i) ==
    IF RefChar(s, i) = "(" THEN RefClosed(s, RefSum(s, RefSpaces(s, i) + 1))
    ELSE RefLiteral(s, RefSpaces(s, i), digits(s, RefSpaces(s, i)))

RefUnary(s, i) ==
    IF RefChar(s, i) = "-" THEN RefNegated(RefPrimary(s, RefSpaces(s, i) + 1))
    ELSE RefPrimary(s, i)

RefTermMore(s, left) ==
    IF RefChar(s, left.pos) \in {"*", "/", "%"}
    THEN RefTermMore(s, RefFold(left, RefChar(s, left.pos),
                                RefUnary(s, RefSpaces(s, left.pos) + 1)))
    ELSE left
RefTerm(s, i) == RefTermMore(s, RefUnary(s, i))

RefSumMore(s, left) ==
    IF RefChar(s, left.pos) \in {"+", "-"}
    THEN RefSumMore(s, RefFold(left, RefChar(s, left.pos),
                               RefTerm(s, RefSpaces(s, left.pos) + 1)))
    ELSE left
RefSum(s, i) == RefSumMore(s, RefTerm(s, i))

RefTree(s) == RefSum(s, 1).val

ResultLine(digits_text) == <<"Result: ">> \o digits_text

\* C6: the tree parse_expr builds for a line groups the binary operators as
\* the reference does (* / % tighter than + -, equal precedence from the
\* left, parentheses as one operand), and 10-3-2, 2+3*4 and (2+3)*4 are
\* answered 5, 14 and 20.
C6_PrecedenceAndLeftAssociativity ==
    pos >= 1 /\ expr # None =>
        /\ expr = RefTree(stdin[pos])
        /\ stdin[pos] = L_10m3m2 => Last(stdout) = ResultLine(<<"5">>)
        /\ stdin[pos] = L_2p3t4 => Last(stdout) = ResultLine(<<"1", "4">>)
        /\ stdin[pos] = L_par2p3t4 => Last(stdout) = ResultLine(<<"2", "0">>)

\* 1-2*3 has been read as 1-(2*3) and 1*2-3 as (1*2)-3.
C6_Witness ==
    /\ pos = 1
    /\ stdin[1] \in {<<"1", "-", "2", "*", "3">>, <<"1", "-", "2", "-", "3">>}
    /\ expr.tag = "BinOp"
    /\ expr.op = "Subtract"
    /\ Answered(1)

(***************************************************************************)
(* C7.  The operands of the UnaryMinus nodes of a tree, in the order of    *)
(* the text, and the primaries that follow the unary minuses of the pairs  *)
(* the tree was built from, in the same order.                             *)
(***************************************************************************)
RECURSIVE UnaryOperandsOfTree(_)
UnaryOperandsOfTree(e) ==
    CASE e.tag = "UnaryMinus" -> <<e.expr>> \o UnaryOperandsOfTree(e.expr)
      [] e.tag = "BinOp" -> UnaryOperandsOfTree(e.lhs) \o UnaryOperandsOfTree(e.rhs)
      [] OTHER -> <<>>

RECURSIVE UnaryOperandsOfPairs(_, _)
UnaryOperandsOfPairs(pairs, k) ==
    IF k > Len(pairs) THEN <<>>
    ELSE (IF pairs[k].rule = "unary_minus" THEN <<map_primary(pairs[k + 1])>> ELSE <<>>)
         \o (IF pairs[k].rule = "expr" THEN UnaryOperandsOfPairs(pairs[k].inner, 1) ELSE <<>>)
         \o UnaryOperandsOfPairs(pairs, k + 1)

PairsOf(line) == CalculatorParser_parse(line).pairs[1].inner

\* C7: every UnaryMinus node of the tree built for a line wraps exactly the
\* primary that follows its minus sign (an integer literal or a parenthesised
\* sub-expression), never more; -2*3 is (-2)*3 = -6, -2+3 is (-2)+3, 2*-3 is
\* 2*(-3) and -(2+3) is -5.
C7_UnaryMinusWrapsOnePrimary ==
    pos >= 1 /\ expr # None =>
        /\ UnaryOperandsOfTree(expr) = UnaryOperandsOfPairs(PairsOf(stdin[pos]), 1)
        /\ stdin[pos] = L_m2t3 =>
               /\ expr = BinOp(UnaryMinus(Integer(2)), "Multiply", Integer(3))
               /\ Last(stdout) = ResultLine(<<"-", "6">>)
        /\ stdin[pos] = L_m2p3 => expr = BinOp(UnaryMinus(Integer(2)), "Add", Integer(3))
        /\ stdin[pos] = L_2tm3 => expr = BinOp(Integer(2), "Multiply", UnaryMinus(Integer(3)))
        /\ stdin[pos] = L_mpar2p3 => Last(stdout) = ResultLine(<<"-", "5">>)

\* A line with a unary minus before a binary operator of each level has been
\* read: -1*2+3.
C7_Witness ==
    /\ pos = 1
    /\ stdin[1] = <<"-", "1", "*", "-", "2", "+", "-", "3">>
    /\ Len(UnaryOperandsOfTree(expr)) = 3
    /\ Answered(1)

(***************************************************************************)
(* C8.  Every line taken has exactly one response, in the order of the     *)
(* lines: a Result line on standard output when it parses and evaluates    *)
(* without error, a Parse failed line on standard error when it does not.  *)
(***************************************************************************)
\* The lines among the first i that are answered on standard output.
AnsweredBefore(i) == Cardinality({j \in 1..i : Answered(j)})
ReportedBefore(i) == Cardinality({j \in 1..i : Reported(j)})

C8_OneResponsePerLine ==
    \A i \in 1..pos :
        /\ Answered(i) \/ Reported(i)
        /\ Answered(i) <=> process_line(stdin[i], TRUE).kind = "Result"
        /\ Answered(i) => stdout[AnsweredBefore(i)] = resp[i].text
        /\ Reported(i) => stderr[ReportedBefore(i)] = resp[i].text

(***************************************************************************)
(* C9.  The response to a line depends on its text alone: once the process *)
(* has ended without a read failure, every line of the stream has the      *)
(* response it gets as the first line of a stream, so a line submitted     *)
(* twice has the same response both times.                                 *)
(***************************************************************************)
FirstLineResponse(line, oc) ==
    [kind |-> process_line(line, oc).kind, text |-> process_line(line, oc).text]

C9_ResponseDependsOnLineOnly ==
    status \in {"exited", "panicked"} =>
        \A i \in 1..Len(stdin) :
            /\ i <= pos
            /\ resp[i] = FirstLineResponse(stdin[i], overflow_checks)
            /\ \A j \in 1..Len(stdin) : stdin[i] = stdin[j] => j <= pos /\ resp[i] = resp[j]

(***************************************************************************)
(* C10.  The stream is a / b, then a % b.                                  *)
(***************************************************************************)
\* The integer a Result line shows, read from its digits.
RECURSIVE ReadNegated(_, _, _)
ReadNegated(text, k, acc) ==
    IF k > Len(text) THEN acc ELSE ReadNegated(text, k + 1, acc * 10 - DigitValue(text[k]))
ResultValue(text) ==
    IF text[2] = "-" THEN ReadNegated(text, 3, 0) ELSE -ReadNegated(text, 2, 0)

DivRemLaw(a, b, q, r) ==
    /\ q * b + r = a
    /\ b > 0 => r < b /\ -r < b
    /\ b < 0 => b < r /\ b < -r
    /\ a >= 0 => r >= 0
    /\ a <= 0 => r <= 0

\* C10: for b # 0 and (a, b) # (i32::MIN, -1), the answers q to a / b and r to
\* a % b satisfy q * b + r = a with |r| < |b| and r of the sign of a: the
\* quotient is rounded toward zero and the remainder matches it.
C10_TruncatingDivisionAndRemainder ==
    \A ab \in Operands \X Operands :
        (pos = 2 /\ stdin = DivRemStream(ab[1], ab[2]) /\ ab[2] # 0
         /\ ~(ab[1] = I32Min /\ ab[2] = -1))
            => /\ Answered(1) /\ Answered(2)
               /\ DivRemLaw(ab[1], ab[2], ResultValue(stdout[1]), ResultValue(stdout[2]))

\* -7/2 has been answered -3 and -7%2 has been answered -1.
C10_Witness ==
    /\ pos = 2
    /\ stdin = DivRemStream(-7, 2)
    /\ stdout = <<ResultLine(<<"-", "3">>), ResultLine(<<"-", "1">>)>>

=============================================================================
